---- MODULE Spec2Model ----
(***************************************************************************)
(* log-center-api: the key-holder registry, the key store (user, process   *)
(* and admin keys), the two authorization checks and the log store, as     *)
(* implemented in src/log-center-api/models.py and api.py.                 *)
(*                                                                         *)
(* Tables are functions from primary key to row.  Spec runs the request    *)
(* handlers one at a time (each handler is one action); ConcSpec runs      *)
(* create_api_key and deactivate_user as interleaved steps of concurrent   *)
(* requests, each step reading and writing the committed tables.           *)
(* QuerySpec runs the log routes on a database that already holds rows of   *)
(* logs; LogSpec runs the key requests of an administrator together with    *)
(* the log routes on a database that holds two approved holders.            *)
(* IssueSpec runs create_api_key with the redraw loop of the key            *)
(* constructor taken one draw at a time, under weak fairness of each step. *)
(***************************************************************************)
EXTENDS Integers, FiniteSets, Sequences, TLC

\* ---------------------------------------------------------------- bounds
\* the number of requests a run makes
MaxRequests == 5
\* the number of rows the table logs holds when the service starts
MaxLogs == 2

\* the values datetime.now() takes, in order
Times == {0, 1}
\* values secrets.token_hex(32) can return
Tokens == {1, 2}
\* e-mail addresses the requests name
Emails == {"alice@x.com", "bob@x.com"}
AdminEmails == {"root@x.com"}
Names == {"alice", "bob"}
\* concurrent requests of ConcSpec
Procs == {1, 2}

\* None: a null column, an absent header
NULL == -1
\* the header values a request can carry: a token string, or none / empty
Headers == Tokens \cup {NULL}

KeyType == {"USER", "PROCESS"}
Environment == {"DEVELOPMENT", "PRODUCTION", "TESTING"}
LogLevel == {"DEBUG", "INFO", "WARNING", "ERROR", "CRITICAL"}
\* the inputs the requests of the model draw from
ProcessNames == {"svc1"}
EnvInputs == {"DEVELOPMENT"}
LevelInputs == {"ERROR"}
\* log messages and search keywords, as strings of characters
Messages == {<<"a", "b">>}
Keywords == {<<"b">>, <<"x">>, <<"a", "b", "c">>}
\* the timestamps of stored log rows, in hours: two hours make a day
LogTimes == {0, 1, 2}
\* the levels, process names and limits the log queries are asked for
LevelParams == {"ERROR", "INFO", "nonexistent"}
StoredLevels == {"ERROR"}
ProcessParams == {"svc1", "nonexistent"}
Limits == {0, 1, 2, 3}

VARIABLES
    key_holders,       \* table key_holders: email -> row
    user_api_keys,     \* table user_api_keys: key -> row
    process_api_keys,  \* table process_api_keys: key -> row
    admin_api_keys,    \* table admin_api_keys: key -> row
    logs,              \* table logs: the sequence of rows
    now,               \* datetime.now()
    resp,              \* the last response: the handler, the header it was sent, its status, the rows it returns
    nreq,              \* the number of requests made
    req                \* ConcSpec: the requests in flight

vars == <<key_holders, user_api_keys, process_api_keys, admin_api_keys, logs, now, resp, nreq, req>>
tables == <<key_holders, user_api_keys, process_api_keys, admin_api_keys, logs>>

\* ------------------------------------------------------------- row types
\* KeyHolder.__init__
NewKeyHolder(email, name) ==
    [email |-> email, name |-> name, created_at |-> now, active |-> TRUE, deactivated_at |-> NULL]

\* deactivate_user flipping the flag instead of clearing it
deactivate_user_row_Toggles(row) ==
    [row EXCEPT !.active = ~row.active, !.deactivated_at = now]

\* KeyHolder.deactivate_user
deactivate_user_row(row) ==
    [row EXCEPT !.active = FALSE, !.deactivated_at = now]

\* deactivate_key flipping the flag instead of clearing it
deactivate_key_Toggles(row) ==
    [row EXCEPT !.active = ~row.active, !.deactivated_at = now]

\* AbstractAPIKey.deactivate_key, AdminApiKey.deactivate_key
deactivate_key(row) ==
    [row EXCEPT !.active = FALSE, !.deactivated_at = now]

\* a user key created with its deactivation time set
NewUserAPIKey_Stamped(new_key, key_owner_email) ==
    [key |-> new_key, key_owner_email |-> key_owner_email, created_at |-> now,
     active |-> TRUE, deactivated_at |-> now, type |-> "USER"]

\* AbstractAPIKey.__init__ after the redraw loop, called by UserAPIKey.__init__
NewUserAPIKey(new_key, key_owner_email) ==
    [key |-> new_key, key_owner_email |-> key_owner_email, created_at |-> now,
     active |-> TRUE, deactivated_at |-> NULL, type |-> "USER"]

\* ProcessAPIKey.__init__
NewProcessAPIKey(new_key, key_owner_email, process_name, environment) ==
    [key |-> new_key, key_owner_email |-> key_owner_email, created_at |-> now,
     active |-> TRUE, deactivated_at |-> NULL, type |-> "PROCESS",
     process_name |-> process_name, environment |-> environment]

\* AdminApiKey.__init__ after the redraw loop
NewAdminApiKey(new_key, admin_key_holder_email) ==
    [key |-> new_key, admin_key_holder_email |-> admin_key_holder_email, created_at |-> now,
     active |-> TRUE, deactivated_at |-> NULL]

\* LogEntry(**entry.dict()) for an entry sent without a timestamp: the entry's
\* fields and no id; the timestamp is the default of LogEntryCreate, which
\* datetime.now() gave once, when the class was defined (time 0)
NewLogEntry(level, message, process_name) ==
    [id |-> NULL, level |-> level, message |-> message, process_name |-> process_name,
     timestamp |-> 0, module |-> NULL, function |-> NULL, line_number |-> NULL]

\* --------------------------------------------------------------- queries
\* the rows of a table
Rows(tbl) == {tbl[k] : k \in DOMAIN tbl}

\* APIKeyPoly: user and process keys queried as one collection
APIKeyPoly == Rows(user_api_keys) \cup Rows(process_api_keys)

\* admin_api_key_exists
admin_api_key_exists(key) ==
    \E r \in Rows(admin_api_keys) : r.key = key /\ r.active

\* api_key_exists
api_key_exists(key) ==
    \E r \in APIKeyPoly : r.key = key /\ r.active

\* verify_admin_key looking the token up among the keys of every kind
verify_admin_key_AnyKind(header) ==
    /\ header # NULL
    /\ \E r \in Rows(admin_api_keys) \cup APIKeyPoly : r.key = header /\ r.active

\* verify_admin_key: TRUE when the request goes on, FALSE when it raises 401
verify_admin_key(header) ==
    /\ header # NULL
    /\ \E r \in Rows(admin_api_keys) : r.key = header /\ r.active

\* verify_api_key without the filter on active
verify_api_key_IgnoresActive(header) ==
    /\ header # NULL
    /\ \E r \in APIKeyPoly : r.key = header

\* verify_api_key: TRUE when the request goes on, FALSE when it raises 401
verify_api_key(header) ==
    /\ header # NULL
    /\ \E r \in APIKeyPoly : r.key = header /\ r.active

\* all_keys returning the user keys only
all_keys_UserKeysOnly(email) ==
    {<<"USER", k>> : k \in {x \in DOMAIN user_api_keys : user_api_keys[x].key_owner_email = email}}

\* KeyHolder.all_keys: the keys of both relationships, as (type, key) pairs
all_keys(email) ==
    {<<"USER", k>> : k \in {x \in DOMAIN user_api_keys : user_api_keys[x].key_owner_email = email}}
    \cup
    {<<"PROCESS", k>> : k \in {x \in DOMAIN process_api_keys : process_api_keys[x].key_owner_email = email}}

\* the holder check without the filter on active
approved_AnyHolder(owner_email) ==
    owner_email \in DOMAIN key_holders

\* the holder check of create_api_key: an active holder with that email
approved(owner_email) ==
    owner_email \in DOMAIN key_holders /\ key_holders[owner_email].active

\* the redraw loop of AbstractAPIKey.__init__: the tokens it can end with
DrawnKeys == {t \in Tokens : ~api_key_exists(t)}

\* the redraw loop of AdminApiKey.__init__: the tokens it can end with
DrawnAdminKeys == {t \in Tokens : ~admin_api_key_exists(t)}

\* UserAPIKey(...) or ProcessAPIKey(...), by the request's key_type
NewAPIKey(key_type, new_key, owner_email, process_name, environment) ==
    IF key_type = "USER"
    THEN NewUserAPIKey(new_key, owner_email)
    ELSE NewProcessAPIKey(new_key, owner_email, process_name, environment)

\* ---------------------------------------------------------------- storage
\* a table without its primary key constraint
PrimaryKeyFree_Unchecked(tbl, k) == TRUE

\* the primary key of a table: an INSERT of an existing key raises IntegrityError
PrimaryKeyFree(tbl, k) == k \notin DOMAIN tbl

\* INSERT one row
Insert(tbl, k, row) == [x \in DOMAIN tbl \cup {k} |-> IF x = k THEN row ELSE tbl[x]]

\* the table a key row is stored in
TableOf(api_key) == IF api_key.type = "USER" THEN user_api_keys ELSE process_api_keys

\* db.add(api_key); db.commit(): whether the INSERT into the key's own table succeeds
CanInsertKey(api_key) == PrimaryKeyFree(TableOf(api_key), api_key.key)

\* db.add(api_key); db.commit(): the key tables after the INSERT
InsertKey(api_key) ==
    IF api_key.type = "USER"
    THEN /\ user_api_keys' = Insert(user_api_keys, api_key.key, api_key)
         /\ UNCHANGED process_api_keys
    ELSE /\ process_api_keys' = Insert(process_api_keys, api_key.key, api_key)
         /\ UNCHANGED user_api_keys

\* the loop of deactivate_user over users_keys and approved_user.deactivate_user(),
\* written by one commit
CommitDeactivateUser(email, users_keys) ==
    /\ user_api_keys' = [k \in DOMAIN user_api_keys |->
            IF <<"USER", k>> \in users_keys
            THEN deactivate_key(user_api_keys[k]) ELSE user_api_keys[k]]
    /\ process_api_keys' = [k \in DOMAIN process_api_keys |->
            IF <<"PROCESS", k>> \in users_keys
            THEN deactivate_key(process_api_keys[k]) ELSE process_api_keys[k]]
    /\ key_holders' = [key_holders EXCEPT ![email] = deactivate_user_row(@)]

\* a request is made: one more of the run's requests
Request == nreq < MaxRequests /\ nreq' = nreq + 1

\* the response of a handler
Respond(op, header, status) ==
    resp' = [op |-> op, header |-> header, status |-> status, body |-> <<>>]

\* the response of a handler that returns rows: status 200 and the rows
Return(op, header, body) ==
    resp' = [op |-> op, header |-> header, status |-> 200, body |-> body]

\* a request slot of ConcSpec before its request arrives
Idle == [pc |-> "idle", op |-> "none", email |-> "none", args |-> <<>>,
         new_key |-> NULL, api_key |-> <<>>, users_keys |-> {}, status |-> 0]

\* ------------------------------------------------------------------ Init
Init ==
    /\ key_holders = <<>>
    /\ user_api_keys = <<>>
    /\ process_api_keys = <<>>
    /\ admin_api_keys = <<>>
    /\ logs = <<>>
    /\ now = 0
    /\ resp = [op |-> "start", header |-> NULL, status |-> 0, body |-> <<>>]
    /\ nreq = 0
    /\ req = [p \in Procs |-> Idle]

\* time passes
Tick ==
    /\ now + 1 \in Times
    /\ now' = now + 1
    /\ UNCHANGED <<tables, resp, nreq, req>>

\* ------------------------------------------- admin keys (no route: models.py)
\* AdminApiKey(admin_key_holder_email), added and committed
CreateAdminKey(email) ==
    /\ Request
    /\ \E new_key \in DrawnAdminKeys :
        IF PrimaryKeyFree(admin_api_keys, new_key)
        THEN /\ admin_api_keys' = Insert(admin_api_keys, new_key, NewAdminApiKey(new_key, email))
             /\ Respond("create_admin_key", NULL, 200)
        ELSE /\ UNCHANGED admin_api_keys
             /\ Respond("create_admin_key", NULL, 500)
    /\ UNCHANGED <<key_holders, user_api_keys, process_api_keys, logs, now, req>>

\* AdminApiKey.deactivate_key on a stored admin key, committed
DeactivateAdminKey(key) ==
    /\ Request
    /\ key \in DOMAIN admin_api_keys
    /\ admin_api_keys' = [admin_api_keys EXCEPT ![key] = deactivate_key(@)]
    /\ Respond("deactivate_admin_key", NULL, 200)
    /\ UNCHANGED <<key_holders, user_api_keys, process_api_keys, logs, now, req>>

\* ---------------------------------------------------------- api.py handlers
\* approve_user storing the holder before the admin key is checked
approve_user_InsertsFirst(header, email, name) ==
    /\ Request
    /\ IF ~PrimaryKeyFree(key_holders, email)
       THEN /\ Respond("approve_user", header, 500)
            /\ UNCHANGED key_holders
       ELSE /\ key_holders' = Insert(key_holders, email, NewKeyHolder(email, name))
            /\ Respond("approve_user", header, IF verify_admin_key(header) THEN 200 ELSE 401)
    /\ UNCHANGED <<user_api_keys, process_api_keys, admin_api_keys, logs, now, req>>

\* POST /users/approve
approve_user(header, email, name) ==
    /\ Request
    /\ IF ~verify_admin_key(header)
       THEN /\ Respond("approve_user", header, 401)
            /\ UNCHANGED key_holders
       ELSE IF ~PrimaryKeyFree(key_holders, email)
       THEN /\ Respond("approve_user", header, 500)
            /\ UNCHANGED key_holders
       ELSE /\ key_holders' = Insert(key_holders, email, NewKeyHolder(email, name))
            /\ Respond("approve_user", header, 200)
    /\ UNCHANGED <<user_api_keys, process_api_keys, admin_api_keys, logs, now, req>>

\* POST /users/deactivate
deactivate_user(header, email) ==
    /\ Request
    /\ IF ~verify_admin_key(header)
       THEN /\ Respond("deactivate_user", header, 401)
            /\ UNCHANGED <<key_holders, user_api_keys, process_api_keys>>
       ELSE IF email \notin DOMAIN key_holders
       THEN /\ Respond("deactivate_user", header, 404)
            /\ UNCHANGED <<key_holders, user_api_keys, process_api_keys>>
       ELSE /\ CommitDeactivateUser(email, all_keys(email))
            /\ Respond("deactivate_user", header, 200)
    /\ UNCHANGED <<admin_api_keys, logs, now, req>>

\* create_api_key without the holder check: a key for any owner_email
create_api_key_Unapproved(header, owner_email, key_type, process_name, environment) ==
    /\ Request
    /\ IF ~verify_admin_key(header)
       THEN /\ Respond("create_api_key", header, 401)
            /\ UNCHANGED <<user_api_keys, process_api_keys>>
       ELSE \E new_key \in DrawnKeys :
              LET api_key == NewAPIKey(key_type, new_key, owner_email, process_name, environment)
              IN  IF CanInsertKey(api_key)
                  THEN /\ InsertKey(api_key)
                       /\ Respond("create_api_key", header, 200)
                  ELSE /\ UNCHANGED <<user_api_keys, process_api_keys>>
                       /\ Respond("create_api_key", header, 500)
    /\ UNCHANGED <<key_holders, admin_api_keys, logs, now, req>>

\* POST /keys/create
create_api_key(header, owner_email, key_type, process_name, environment) ==
    /\ Request
    /\ IF ~verify_admin_key(header)
       THEN /\ Respond("create_api_key", header, 401)
            /\ UNCHANGED <<user_api_keys, process_api_keys>>
       ELSE IF ~approved(owner_email)
       THEN /\ Respond("create_api_key", header, 403)
            /\ UNCHANGED <<user_api_keys, process_api_keys>>
       ELSE \E new_key \in DrawnKeys :
              LET api_key == NewAPIKey(key_type, new_key, owner_email, process_name, environment)
              IN  IF CanInsertKey(api_key)
                  THEN /\ InsertKey(api_key)
                       /\ Respond("create_api_key", header, 200)
                  ELSE /\ UNCHANGED <<user_api_keys, process_api_keys>>
                       /\ Respond("create_api_key", header, 500)
    /\ UNCHANGED <<key_holders, admin_api_keys, logs, now, req>>

\* deactivate_api_key looking the key up among the active keys only
deactivate_api_key_ActiveOnly(header, key) ==
    /\ Request
    /\ IF ~verify_admin_key(header)
       THEN /\ Respond("deactivate_api_key", header, 401)
            /\ UNCHANGED <<user_api_keys, process_api_keys>>
       ELSE IF ~\E r \in APIKeyPoly : r.key = key /\ r.active
       THEN /\ Respond("deactivate_api_key", header, 404)
            /\ UNCHANGED <<user_api_keys, process_api_keys>>
       ELSE /\ \/ /\ key \in DOMAIN user_api_keys
                  /\ user_api_keys' = [user_api_keys EXCEPT ![key] = deactivate_key(@)]
                  /\ UNCHANGED process_api_keys
               \/ /\ key \in DOMAIN process_api_keys
                  /\ process_api_keys' = [process_api_keys EXCEPT ![key] = deactivate_key(@)]
                  /\ UNCHANGED user_api_keys
            /\ Respond("deactivate_api_key", header, 200)
    /\ UNCHANGED <<key_holders, admin_api_keys, logs, now, req>>

\* POST /keys/deactivate/{key}: .first() of the rows with that key, in either table
deactivate_api_key(header, key) ==
    /\ Request
    /\ IF ~verify_admin_key(header)
       THEN /\ Respond("deactivate_api_key", header, 401)
            /\ UNCHANGED <<user_api_keys, process_api_keys>>
       ELSE IF ~\E r \in APIKeyPoly : r.key = key
       THEN /\ Respond("deactivate_api_key", header, 404)
            /\ UNCHANGED <<user_api_keys, process_api_keys>>
       ELSE /\ \/ /\ key \in DOMAIN user_api_keys
                  /\ user_api_keys' = [user_api_keys EXCEPT ![key] = deactivate_key(@)]
                  /\ UNCHANGED process_api_keys
               \/ /\ key \in DOMAIN process_api_keys
                  /\ process_api_keys' = [process_api_keys EXCEPT ![key] = deactivate_key(@)]
                  /\ UNCHANGED user_api_keys
            /\ Respond("deactivate_api_key", header, 200)
    /\ UNCHANGED <<key_holders, admin_api_keys, logs, now, req>>

\* POST /keys/deactivate-by-owner/{owner_email}: the filter names
\* APIKeyPoly.owner_email, and the key classes have key_owner_email only, so
\* building the query raises AttributeError before any row is read
deactivate_api_key_by_owner(header, owner_email) ==
    /\ Request
    /\ IF ~verify_admin_key(header)
       THEN Respond("deactivate_api_key_by_owner", header, 401)
       ELSE Respond("deactivate_api_key_by_owner", header, 500)
    /\ UNCHANGED <<tables, now, req>>

\* POST /logs/: logs.id is the primary key and the row carries none, so the
\* INSERT is refused
post_log(header, level, message, process_name) ==
    /\ Request
    /\ IF ~verify_api_key(header)
       THEN /\ Respond("post_log", header, 401)
            /\ UNCHANGED logs
       ELSE LET log == NewLogEntry(level, message, process_name)
            IN  IF log.id = NULL
                THEN /\ Respond("post_log", header, 500)
                     /\ UNCHANGED logs
                ELSE /\ logs' = Append(logs, log)
                     /\ Respond("post_log", header, 200)
    /\ UNCHANGED <<key_holders, user_api_keys, process_api_keys, admin_api_keys, now, req>>

\* ------------------------------------------------------------ log queries
\* the date and the time of day of a timestamp
DatePart(t) == t \div 2
TimePart(t) == t % 2

\* the character codes of the two separators of a date and a time
Ord == [c \in {" ", "T"} |-> IF c = " " THEN 32 ELSE 84]

\* the text SQLite keeps in a DateTime column: date, a space, time
StoredText(t) == <<DatePart(t), Ord[" "], TimePart(t)>>

\* datetime.isoformat(), the text of a timestamp in a JSON response: date, T, time
isoformat(t) == <<DatePart(t), Ord["T"], TimePart(t)>>

\* the timestamp a date string stands for, in either form
fromisoformat(text) == text[1] * 2 + text[3]

\* the date strings a request can carry in its path
DateStrings == {StoredText(t) : t \in LogTimes} \cup {isoformat(t) : t \in LogTimes}

\* the order of two texts: character by character, a prefix first
RECURSIVE TextLess(_, _)
TextLess(a, b) ==
    IF b = <<>> THEN FALSE
    ELSE IF a = <<>> THEN TRUE
    ELSE IF Head(a) = Head(b) THEN TextLess(Tail(a), Tail(b))
    ELSE Head(a) < Head(b)

\* LogEntry.timestamp >= date, date a str: the stored text compared with the string
TimestampGE(t, date) == ~TextLess(StoredText(t), date)

\* LogEntry.timestamp <= date, date a str
TimestampLE(t, date) == ~TextLess(date, StoredText(t))

\* LogEntry.message.contains(keyword): keyword is a substring of the message
contains(message, keyword) ==
    \E i \in 0..(Len(message) - Len(keyword)) :
        SubSeq(message, i + 1, i + Len(keyword)) = keyword

\* the rows of logs ordered by timestamp ascending
order_by_timestamp_asc ==
    {s \in {[i \in 1..Len(logs) |-> logs[f[i]]] : f \in Permutations(1..Len(logs))} :
        \A i, j \in 1..Len(logs) : i < j => s[i].timestamp <= s[j].timestamp}

\* .order_by(LogEntry.timestamp.desc()): the orders of the rows of logs with
\* no timestamp before a later one; rows of one timestamp come in any order
order_by_timestamp_desc ==
    {s \in {[i \in 1..Len(logs) |-> logs[f[i]]] : f \in Permutations(1..Len(logs))} :
        \A i, j \in 1..Len(logs) : i < j => s[i].timestamp >= s[j].timestamp}

\* .limit(limit)
Limit(rows, limit) == SubSeq(rows, 1, IF limit < Len(rows) THEN limit ELSE Len(rows))

\* a filtering route that returns the empty list
Query_EmptyList(op, header, rows) ==
    IF ~verify_api_key(header)
    THEN Respond(op, header, 401)
    ELSE Return(op, header, rows)

\* the response of a filtering route: 401 without an active key, 404 for no
\* rows, else the rows
Query(op, header, rows) ==
    IF ~verify_api_key(header)
    THEN Respond(op, header, 401)
    ELSE IF rows = <<>>
    THEN Respond(op, header, 404)
    ELSE Return(op, header, rows)

\* GET /logs/: every row, and no 404
get_logs(header) ==
    /\ Request
    /\ IF ~verify_api_key(header)
       THEN Respond("get_logs", header, 401)
       ELSE Return("get_logs", header, logs)
    /\ UNCHANGED <<tables, now, req>>

\* GET /logs/level/{level}
get_logs_by_level(header, level) ==
    /\ Request
    /\ Query("get_logs_by_level", header, SelectSeq(logs, LAMBDA r : r.level = level))
    /\ UNCHANGED <<tables, now, req>>

\* GET /logs/process/{process_name}
get_logs_by_process_name(header, process_name) ==
    /\ Request
    /\ Query("get_logs_by_process_name", header, SelectSeq(logs, LAMBDA r : r.process_name = process_name))
    /\ UNCHANGED <<tables, now, req>>

\* GET /logs/filter/{process_name}/{level}
get_logs_by_process_and_level(header, process_name, level) ==
    /\ Request
    /\ Query("get_logs_by_process_and_level", header,
             SelectSeq(logs, LAMBDA r : r.process_name = process_name /\ r.level = level))
    /\ UNCHANGED <<tables, now, req>>

\* GET /logs/filter/messages/{keyword}
get_logs_by_msg_keyword(header, keyword) ==
    /\ Request
    /\ Query("get_logs_by_msg_keyword", header, SelectSeq(logs, LAMBDA r : contains(r.message, keyword)))
    /\ UNCHANGED <<tables, now, req>>

\* GET /logs/filter/{process_name}/messages/{keyword}
get_logs_by_process_and_msg_keyword(header, process_name, keyword) ==
    /\ Request
    /\ Query("get_logs_by_process_and_msg_keyword", header,
             SelectSeq(logs, LAMBDA r : r.process_name = process_name /\ contains(r.message, keyword)))
    /\ UNCHANGED <<tables, now, req>>

\* GET /logs/recent/{limit}
get_recent_logs(header, limit) ==
    /\ Request
    /\ \E ordered \in order_by_timestamp_desc :
          Query("get_recent_logs", header, Limit(ordered, limit))
    /\ UNCHANGED <<tables, now, req>>

\* GET /logs/date/{date}
get_logs_by_date(header, date) ==
    /\ Request
    /\ Query("get_logs_by_date", header, SelectSeq(logs, LAMBDA r : TimestampGE(r.timestamp, date)))
    /\ UNCHANGED <<tables, now, req>>

\* GET /logs/filter/date-range/{start_date}/{end_date}
get_logs_by_date_range(header, start_date, end_date) ==
    /\ Request
    /\ Query("get_logs_by_date_range", header,
             SelectSeq(logs, LAMBDA r : TimestampGE(r.timestamp, start_date) /\ TimestampLE(r.timestamp, end_date)))
    /\ UNCHANGED <<tables, now, req>>

\* ------------------------------------------- requests handled one at a time
IssueAdminKey == \E e \in AdminEmails : CreateAdminKey(e)
RevokeAdminKey == \E k \in Tokens : DeactivateAdminKey(k)
ApproveUser == \E h \in Headers, e \in Emails, n \in Names : approve_user(h, e, n)
DeactivateUser == \E h \in Headers, e \in Emails : deactivate_user(h, e)
CreateApiKey ==
    \E h \in Headers, e \in Emails, ty \in KeyType, pn \in ProcessNames, env \in EnvInputs :
        create_api_key(h, e, ty, pn, env)
DeactivateApiKey == \E h \in Headers, k \in Tokens : deactivate_api_key(h, k)
DeactivateApiKeyByOwner == \E h \in Headers, e \in Emails : deactivate_api_key_by_owner(h, e)
PostLog ==
    \E h \in Headers, l \in LevelInputs, m \in Messages, pn \in ProcessNames : post_log(h, l, m, pn)

Next ==
    \/ Tick
    \/ IssueAdminKey
    \/ RevokeAdminKey
    \/ ApproveUser
    \/ DeactivateUser
    \/ CreateApiKey
    \/ DeactivateApiKey
    \/ DeactivateApiKeyByOwner
    \/ PostLog

Spec == Init /\ [][Next]_vars

\* ------------------------------------------------- concurrent requests
\* Each request runs in its own session on the shared database: a query reads
\* the committed tables at the time it runs, db.commit() writes them.

\* create_api_key up to the holder check: the admin check and the query for
\* an active holder
create_begin(p, header, owner_email, key_type, process_name, environment) ==
    /\ req[p].pc = "idle"
    /\ Request
    /\ req' = [req EXCEPT ![p] =
          [Idle EXCEPT !.op = "create_api_key", !.email = owner_email,
                       !.args = <<key_type, process_name, environment>>,
                       !.pc = IF verify_admin_key(header) /\ approved(owner_email)
                              THEN "approved" ELSE "done",
                       !.status = IF ~verify_admin_key(header) THEN 401
                                  ELSE IF ~approved(owner_email) THEN 403 ELSE 0]]
    /\ UNCHANGED <<tables, now, resp>>

\* create_api_key: UserAPIKey(...) / ProcessAPIKey(...), whose redraw loop
\* queries the committed keys
create_construct(p) ==
    /\ req[p].pc = "approved"
    /\ \E new_key \in DrawnKeys :
          req' = [req EXCEPT ![p].pc = "constructed",
                             ![p].api_key = NewAPIKey(req[p].args[1], new_key, req[p].email,
                                                      req[p].args[2], req[p].args[3])]
    /\ UNCHANGED <<tables, now, resp, nreq>>

\* create_api_key: db.add(api_key); db.commit(); return api_key
create_commit(p) ==
    /\ req[p].pc = "constructed"
    /\ IF CanInsertKey(req[p].api_key)
       THEN /\ InsertKey(req[p].api_key)
            /\ req' = [req EXCEPT ![p].pc = "done", ![p].status = 200]
       ELSE /\ UNCHANGED <<user_api_keys, process_api_keys>>
            /\ req' = [req EXCEPT ![p].pc = "done", ![p].status = 500]
    /\ UNCHANGED <<key_holders, admin_api_keys, logs, now, resp, nreq>>

\* deactivate_user up to users_keys = approved_user.all_keys
deactivate_begin(p, header, email) ==
    /\ req[p].pc = "idle"
    /\ Request
    /\ req' = [req EXCEPT ![p] =
          [Idle EXCEPT !.op = "deactivate_user", !.email = email,
                       !.users_keys = IF verify_admin_key(header) /\ email \in DOMAIN key_holders
                                      THEN all_keys(email) ELSE {},
                       !.pc = IF verify_admin_key(header) /\ email \in DOMAIN key_holders
                              THEN "loaded" ELSE "done",
                       !.status = IF ~verify_admin_key(header) THEN 401
                                  ELSE IF email \notin DOMAIN key_holders THEN 404 ELSE 0]]
    /\ UNCHANGED <<tables, now, resp>>

\* deactivate_user: the loop over users_keys, approved_user.deactivate_user(),
\* db.commit()
deactivate_commit(p) ==
    /\ req[p].pc = "loaded"
    /\ CommitDeactivateUser(req[p].email, req[p].users_keys)
    /\ req' = [req EXCEPT ![p].pc = "done", ![p].status = 200]
    /\ UNCHANGED <<admin_api_keys, logs, now, resp, nreq>>

CreateBegin ==
    \E p \in Procs, h \in Headers, e \in Emails, ty \in KeyType, pn \in ProcessNames, env \in EnvInputs :
        create_begin(p, h, e, ty, pn, env)
CreateConstruct == \E p \in Procs : create_construct(p)
CreateCommit == \E p \in Procs : create_commit(p)
DeactivateBegin == \E p \in Procs, h \in Headers, e \in Emails : deactivate_begin(p, h, e)
DeactivateCommit == \E p \in Procs : deactivate_commit(p)

ConcNext ==
    \/ Tick
    \/ IssueAdminKey
    \/ ApproveUser
    \/ CreateBegin
    \/ CreateConstruct
    \/ CreateCommit
    \/ DeactivateBegin
    \/ DeactivateCommit

ConcSpec == Init /\ [][ConcNext]_vars

\* ------------------------------------------------- the log store in service
\* QuerySpec: the service starts on a database that holds an admin key, an
\* approved holder with a user key, and rows of logs, and handles log requests.
\* LogSpec: it starts on a database that holds an admin key, two approved
\* holders and no logs, and handles the key requests of an administrator and
\* log requests.

\* a stored row of logs: the fields of an entry and its id
StoredLogEntry(id, entry) ==
    [id |-> id, level |-> entry.level, message |-> entry.message,
     process_name |-> entry.process_name, timestamp |-> entry.timestamp,
     module |-> NULL, function |-> NULL, line_number |-> NULL]

\* the entries of the rows the table logs can start with
StoredEntries ==
    [level : StoredLevels, message : Messages, process_name : ProcessNames, timestamp : LogTimes]

\* the contents the table logs can start with: up to MaxLogs rows, with ids 1, 2, ...
LogStores ==
    UNION {{[i \in 1..n |-> StoredLogEntry(i, f[i])] : f \in [1..n -> StoredEntries]} : n \in 0..MaxLogs}

QueryInit ==
    /\ now = 0
    /\ admin_api_keys = [k \in {1} |-> NewAdminApiKey(k, "root@x.com")]
    /\ key_holders = [e \in {"alice@x.com"} |-> NewKeyHolder(e, "alice")]
    /\ user_api_keys = [k \in {2} |-> NewUserAPIKey(k, "alice@x.com")]
    /\ process_api_keys = <<>>
    /\ logs \in LogStores
    /\ resp = [op |-> "start", header |-> NULL, status |-> 0, body |-> <<>>]
    /\ nreq = 0
    /\ req = [p \in Procs |-> Idle]

LogInit ==
    /\ now = 0
    /\ admin_api_keys = [k \in {1} |-> NewAdminApiKey(k, "root@x.com")]
    /\ key_holders = [e \in Emails |-> NewKeyHolder(e, IF e = "alice@x.com" THEN "alice" ELSE "bob")]
    /\ user_api_keys = <<>>
    /\ process_api_keys = <<>>
    /\ logs = <<>>
    /\ resp = [op |-> "start", header |-> NULL, status |-> 0, body |-> <<>>]
    /\ nreq = 0
    /\ req = [p \in Procs |-> Idle]

\* the key requests of an administrator
AdminDeactivateUser == \E h \in DOMAIN admin_api_keys, e \in Emails : deactivate_user(h, e)
AdminCreateApiKey ==
    \E h \in DOMAIN admin_api_keys, e \in Emails, ty \in KeyType, pn \in ProcessNames, env \in EnvInputs :
        create_api_key(h, e, ty, pn, env)

\* the log queries
GetLogs == \E h \in Headers : get_logs(h)
GetLogsByLevel == \E h \in Headers, l \in LevelParams : get_logs_by_level(h, l)
GetLogsByProcessName == \E h \in Headers, pn \in ProcessParams : get_logs_by_process_name(h, pn)
GetLogsByProcessAndLevel ==
    \E h \in Headers, pn \in ProcessParams, l \in LevelParams : get_logs_by_process_and_level(h, pn, l)
GetLogsByMsgKeyword == \E h \in Headers, kw \in Keywords : get_logs_by_msg_keyword(h, kw)
GetLogsByProcessAndMsgKeyword ==
    \E h \in Headers, pn \in ProcessParams, kw \in Keywords :
        get_logs_by_process_and_msg_keyword(h, pn, kw)
GetRecentLogs == \E h \in Headers, n \in Limits : get_recent_logs(h, n)
GetLogsByDate == \E h \in Headers, d \in DateStrings : get_logs_by_date(h, d)
GetLogsByDateRange ==
    \E h \in Headers, a \in DateStrings, b \in DateStrings : get_logs_by_date_range(h, a, b)

QueryNext ==
    \/ PostLog
    \/ GetLogs
    \/ GetLogsByLevel
    \/ GetLogsByProcessName
    \/ GetLogsByProcessAndLevel
    \/ GetLogsByMsgKeyword
    \/ GetLogsByProcessAndMsgKeyword
    \/ GetRecentLogs
    \/ GetLogsByDate
    \/ GetLogsByDateRange

QuerySpec == QueryInit /\ [][QueryNext]_vars

LogNext ==
    \/ AdminDeactivateUser
    \/ AdminCreateApiKey
    \/ PostLog
    \/ GetLogs
    \/ GetLogsByLevel
    \/ GetLogsByProcessName
    \/ GetLogsByProcessAndLevel
    \/ GetLogsByMsgKeyword
    \/ GetLogsByProcessAndMsgKeyword
    \/ GetRecentLogs
    \/ GetLogsByDate
    \/ GetLogsByDateRange

LogSpec == LogInit /\ [][LogNext]_vars

\* ======================================================== claims C1..C10
\* the tokens of the operational keys, of the active ones, and the same for admin keys
OperationalTokens == DOMAIN user_api_keys \cup DOMAIN process_api_keys
ActiveOperationalTokens ==
    {k \in DOMAIN user_api_keys : user_api_keys[k].active}
    \cup {k \in DOMAIN process_api_keys : process_api_keys[k].active}
AdminTokens == DOMAIN admin_api_keys
ActiveAdminTokens == {k \in DOMAIN admin_api_keys : admin_api_keys[k].active}
\* the handlers behind verify_admin_key and behind verify_api_key
AdminOps == {"approve_user", "deactivate_user", "create_api_key", "deactivate_api_key",
             "deactivate_api_key_by_owner"}
OperationalOps == {"post_log"}
\* a step that handles one request; resp' is its response
RequestStep == nreq' = nreq + 1

\* C1: no two keys ever issued, of any kind and active or not, share a token:
\* a token is the key of at most one row of the three key tables (within one
\* table the primary key already keeps it to one row).
C1_TokenUniqueness ==
    /\ DOMAIN user_api_keys \cap DOMAIN process_api_keys = {}
    /\ DOMAIN user_api_keys \cap DOMAIN admin_api_keys = {}
    /\ DOMAIN process_api_keys \cap DOMAIN admin_api_keys = {}

\* C2: under every interleaving, no committed state holds an active key whose
\* owning holder is inactive.
C2_NoActiveKeyOfInactiveHolder ==
    \A r \in APIKeyPoly :
        r.active => (r.key_owner_email \in DOMAIN key_holders
                     /\ key_holders[r.key_owner_email].active)

\* C3: a deactivate(email) that succeeds leaves, in the state it commits, the
\* holder inactive with a deactivation timestamp and every user and process key
\* of that holder inactive.
C3_DeactivateCascades ==
    [][(RequestStep /\ resp'.op = "deactivate_user" /\ resp'.status = 200) =>
       \A h \in Headers, e \in Emails :
          deactivate_user(h, e) =>
              /\ ~key_holders'[e].active
              /\ key_holders'[e].deactivated_at # NULL
              /\ \A k \in DOMAIN user_api_keys' :
                    user_api_keys'[k].key_owner_email = e => ~user_api_keys'[k].active
              /\ \A k \in DOMAIN process_api_keys' :
                    process_api_keys'[k].key_owner_email = e => ~process_api_keys'[k].active]_vars

\* C3 witness: a holder deactivation has succeeded for a holder owning a user
\* key and a process key, and both are inactive.
C3_Witness ==
    /\ resp.op = "deactivate_user" /\ resp.status = 200
    /\ \E e \in DOMAIN key_holders :
          /\ ~key_holders[e].active
          /\ \E k \in DOMAIN user_api_keys :
                user_api_keys[k].key_owner_email = e /\ ~user_api_keys[k].active
          /\ \E k \in DOMAIN process_api_keys :
                process_api_keys[k].key_owner_email = e /\ ~process_api_keys[k].active

\* C4: a token that is only an operational key never passes the admin check,
\* and a token that is only an admin key never passes the operational check:
\* the request is answered 401 and no table changes.
C4_NamespaceIsolation ==
    [][RequestStep =>
          /\ (resp'.op \in AdminOps /\ resp'.header \in OperationalTokens \ AdminTokens)
                => (resp'.status = 401 /\ UNCHANGED tables)
          /\ (resp'.op \in OperationalOps /\ resp'.header \in AdminTokens \ OperationalTokens)
                => (resp'.status = 401 /\ UNCHANGED tables)]_vars

\* C4 witness: an admin-gated request carried the token of an active
\* operational key that is no admin key, and was answered 401.
C4_Witness ==
    /\ resp.op \in AdminOps /\ resp.status = 401
    /\ resp.header \in ActiveOperationalTokens \ AdminTokens

\* C5: a request passes the check of its namespace exactly when its header is
\* the token of a key that is active in that namespace; otherwise (no header, an
\* unknown token, a deactivated key) it is answered 401.
C5_GrantIffActiveKey ==
    [][RequestStep =>
          /\ resp'.op \in AdminOps
                => (resp'.status # 401 <=> resp'.header \in ActiveAdminTokens)
          /\ resp'.op \in OperationalOps
                => (resp'.status # 401 <=> resp'.header \in ActiveOperationalTokens)]_vars

\* C5 witness: a log request carried the token of a deactivated key and was
\* answered 401.
C5_Witness ==
    /\ resp.op = "post_log" /\ resp.status = 401
    /\ resp.header \in OperationalTokens \ ActiveOperationalTokens

\* C6: deactivateByToken on a key that is already inactive returns no error
\* and leaves the stored row of that key as it was, deactivated_at included.
C6_RedeactivationChangesNothing ==
    [][(RequestStep /\ resp'.op = "deactivate_api_key") =>
       \A h \in ActiveAdminTokens, k \in Tokens :
          deactivate_api_key(h, k) =>
              /\ (k \in DOMAIN user_api_keys /\ ~user_api_keys[k].active)
                    => (resp'.status = 200 /\ user_api_keys'[k] = user_api_keys[k])
              /\ (k \in DOMAIN process_api_keys /\ ~process_api_keys[k].active)
                    => (resp'.status = 200 /\ process_api_keys'[k] = process_api_keys[k])]_vars

\* a step keeps the rows of a key table, keeps the inactive ones inactive, and
\* adds active rows only
KeyLifecycle(tbl, tbl2) ==
    /\ \A k \in DOMAIN tbl : k \in DOMAIN tbl2 /\ (~tbl[k].active => ~tbl2[k].active)
    /\ \A k \in DOMAIN tbl2 \ DOMAIN tbl : tbl2[k].active

\* C7: every key is active right after it is issued, and an inactive key is
\* inactive in every later state, whatever request follows.
C7_InactiveIsTerminal ==
    [][/\ KeyLifecycle(user_api_keys, user_api_keys')
       /\ KeyLifecycle(process_api_keys, process_api_keys')
       /\ KeyLifecycle(admin_api_keys, admin_api_keys')]_vars

\* C7 witness: a key was issued after another key had been deactivated, and
\* the deactivated key is still inactive.
C7_Witness ==
    /\ resp.op = "create_api_key" /\ resp.status = 200
    /\ \E k \in DOMAIN user_api_keys : ~user_api_keys[k].active

\* C8: two concurrent issue requests for the same approved holder both end
\* with status 200 and with two distinct tokens, whatever the generator draws.
C8_ConcurrentIssueBothSucceed ==
    \A p, q \in Procs :
        (/\ p # q
         /\ req[p].op = "create_api_key" /\ req[q].op = "create_api_key"
         /\ req[p].pc = "done" /\ req[q].pc = "done"
         /\ req[p].email = req[q].email
         /\ req[p].status \notin {401, 403} /\ req[q].status \notin {401, 403})
        => /\ req[p].status = 200
           /\ req[q].status = 200
           /\ req[p].api_key.key # req[q].api_key.key

\* the owner of every row a step adds to a key table was an active holder
\* before the step
IssuedToActiveHolder(tbl, tbl2) ==
    \A k \in DOMAIN tbl2 \ DOMAIN tbl :
        /\ tbl2[k].key_owner_email \in DOMAIN key_holders
        /\ key_holders[tbl2[k].key_owner_email].active

\* C9: an authorized issue for an email that is no active holder (unknown, or
\* deactivated) is answered 403 and adds no key; so the owner of every key was
\* active when the key was issued.
C9_IssueNeedsActiveHolder ==
    [][/\ (RequestStep /\ resp'.op = "create_api_key") =>
             \A h \in ActiveAdminTokens, e \in Emails :
                (/\ ~(e \in DOMAIN key_holders /\ key_holders[e].active)
                 /\ \E ty \in KeyType, pn \in ProcessNames, env \in EnvInputs :
                        create_api_key(h, e, ty, pn, env))
                => (resp'.status = 403 /\ UNCHANGED <<user_api_keys, process_api_keys>>)
       /\ IssuedToActiveHolder(user_api_keys, user_api_keys')
       /\ IssuedToActiveHolder(process_api_keys, process_api_keys')]_vars

\* C9 witness: an issue request was answered 403 while a deactivated holder exists.
C9_Witness ==
    /\ resp.op = "create_api_key" /\ resp.status = 403
    /\ \E e \in DOMAIN key_holders : ~key_holders[e].active

\* C10: an authorized approve(email, name) of a new email stores an active
\* holder with that name; of an existing email (active or deactivated) it fails
\* (the unique-email violation, status 500) and leaves the registry as it was.
C10_ApproveNewOrFail ==
    [][(RequestStep /\ resp'.op = "approve_user") =>
       \A h \in ActiveAdminTokens, e \in Emails, n \in Names :
          approve_user(h, e, n) =>
              IF e \in DOMAIN key_holders
              THEN resp'.status = 500 /\ key_holders' = key_holders
              ELSE /\ resp'.status = 200
                   /\ DOMAIN key_holders' = DOMAIN key_holders \cup {e}
                   /\ key_holders'[e].active
                   /\ key_holders'[e].name = n
                   /\ key_holders'[e].deactivated_at = NULL
                   /\ \A x \in DOMAIN key_holders : key_holders'[x] = key_holders[x]]_vars

\* C10 witness: an approve request failed while a deactivated holder exists,
\* which is still deactivated.
C10_Witness ==
    /\ resp.op = "approve_user" /\ resp.status = 500
    /\ \E e \in DOMAIN key_holders : ~key_holders[e].active

\* ------------------------------------------------- the redraw loop, by steps
\* IssueSpec: concurrent issue requests on a database that holds an admin key
\* and an approved holder with a user key, with the loop of
\* AbstractAPIKey.__init__ run one iteration at a time.  A request that has
\* started goes on running: each of its steps is weakly fair.

\* AbstractAPIKey.__init__: new_key = secrets.token_hex(32)
issue_draw(p) ==
    /\ req[p].pc = "approved"
    /\ \E new_key \in Tokens :
          req' = [req EXCEPT ![p].pc = "drawn", ![p].new_key = new_key]
    /\ UNCHANGED <<tables, now, resp, nreq>>

\* while api_key_exists(new_key, SessionLocal()): new_key = secrets.token_hex(32)
issue_redraw(p) ==
    /\ req[p].pc = "drawn"
    /\ api_key_exists(req[p].new_key)
    /\ \E new_key \in Tokens :
          req' = [req EXCEPT ![p].new_key = new_key]
    /\ UNCHANGED <<tables, now, resp, nreq>>

\* the loop is left: self.key = new_key and the other fields are set
issue_construct(p) ==
    /\ req[p].pc = "drawn"
    /\ ~api_key_exists(req[p].new_key)
    /\ req' = [req EXCEPT ![p].pc = "constructed",
                          ![p].api_key = NewAPIKey(req[p].args[1], req[p].new_key, req[p].email,
                                                   req[p].args[2], req[p].args[3])]
    /\ UNCHANGED <<tables, now, resp, nreq>>

IssueInit == QueryInit /\ logs = <<>>

IssueBegin ==
    \E p \in Procs, h \in DOMAIN admin_api_keys, e \in Emails, ty \in KeyType,
       pn \in ProcessNames, env \in EnvInputs :
        create_begin(p, h, e, ty, pn, env)
IssueDraw == \E p \in Procs : issue_draw(p)
IssueRedraw == \E p \in Procs : issue_redraw(p)
IssueConstruct == \E p \in Procs : issue_construct(p)

IssueNext ==
    \/ IssueBegin
    \/ IssueDraw
    \/ IssueRedraw
    \/ IssueConstruct
    \/ CreateCommit

IssueFairness ==
    \A p \in Procs :
        /\ WF_vars(issue_draw(p))
        /\ WF_vars(issue_redraw(p))
        /\ WF_vars(issue_construct(p))
        /\ WF_vars(create_commit(p))

IssueSpec == IssueInit /\ [][IssueNext]_vars /\ IssueFairness

\* ======================================================= claims C11..C20
\* the query routes, and every route behind verify_api_key
QueryOps == {"get_logs", "get_logs_by_level", "get_logs_by_process_name",
             "get_logs_by_process_and_level", "get_logs_by_msg_keyword",
             "get_logs_by_process_and_msg_keyword", "get_recent_logs",
             "get_logs_by_date", "get_logs_by_date_range"}
LogOps == {"post_log"} \cup QueryOps
\* the tokens of the keys whose holder has been deactivated
DeactivatedHoldersTokens ==
    {r.key : r \in {x \in APIKeyPoly : /\ x.key_owner_email \in DOMAIN key_holders
                                      /\ ~key_holders[x.key_owner_email].active}}

\* C11: once a holder who was issued a key has been deactivated, every later
\* log request (ingestion or query) that presents that key's token is answered
\* 401 and the log store is left as it was.
C11_DeactivatedHoldersKeyDenied ==
    [][(RequestStep /\ resp'.op \in LogOps /\ resp'.header \in DeactivatedHoldersTokens)
          => (resp'.status = 401 /\ logs' = logs)]_vars

\* the rows of a sequence of rows
RowSet(rows) == {rows[i] : i \in 1..Len(rows)}
\* the stored rows whose timestamp is from the time a stands for to the time b
\* stands for, both included
InDateRange(a, b) ==
    {r \in RowSet(logs) : fromisoformat(a) <= r.timestamp /\ r.timestamp <= fromisoformat(b)}

\* C12: an authorized byDateRange(a, b) returns exactly the stored rows whose
\* timestamp t has a <= t <= b (404 when there is none): no row in the range
\* is missing and no row outside it is returned.
C12_DateRangeExact ==
    [][(RequestStep /\ resp'.op = "get_logs_by_date_range") =>
       \A h \in ActiveOperationalTokens, a \in DateStrings, b \in DateStrings :
          get_logs_by_date_range(h, a, b) =>
              IF InDateRange(a, b) = {}
              THEN resp'.status = 404
              ELSE resp'.status = 200 /\ RowSet(resp'.body) = InDateRange(a, b)]_vars

\* min(n, total)
Min(a, b) == IF a < b THEN a ELSE b

\* C13: an authorized mostRecent(n) returns exactly min(n, total) stored rows,
\* ordered by timestamp descending, none of them older than a row left out;
\* when min(n, total) is 0 it is answered 404, as every filtering query is.
C13_MostRecent ==
    [][(RequestStep /\ resp'.op = "get_recent_logs") =>
       \A h \in ActiveOperationalTokens, n \in Limits :
          get_recent_logs(h, n) =>
              IF Min(n, Len(logs)) = 0
              THEN resp'.status = 404
              ELSE /\ resp'.status = 200
                   /\ Len(resp'.body) = Min(n, Len(logs))
                   /\ RowSet(resp'.body) \subseteq RowSet(logs)
                   /\ Cardinality(RowSet(resp'.body)) = Len(resp'.body)
                   /\ \A i, j \in 1..Len(resp'.body) :
                         i < j => resp'.body[i].timestamp >= resp'.body[j].timestamp
                   /\ \A r \in RowSet(logs) \ RowSet(resp'.body), x \in RowSet(resp'.body) :
                         r.timestamp <= x.timestamp]_vars

\* C13 witness: mostRecent(1) on a store of two rows, the older one stored
\* last, returned the one later row.
C13_Witness ==
    /\ resp.op = "get_recent_logs" /\ resp.status = 200
    /\ Len(logs) = 2 /\ Len(resp.body) = 1
    /\ logs[1].timestamp > logs[2].timestamp
    /\ resp.body[1] = logs[1]

\* the filtering query routes
FilterOps == QueryOps \ {"get_logs"}

\* C14: an authorized filtering query (by level, process, process and level,
\* keyword, process and keyword, most recent, date from, date range) for which
\* no stored row matches is answered 404; no filtering query is answered 200
\* with an empty list.
C14_EmptyResultIsNotFound ==
    [][(RequestStep /\ resp'.op \in FilterOps /\ resp'.header \in ActiveOperationalTokens) =>
       /\ resp'.status \in {200, 404}
       /\ resp'.status = 200 => resp'.body # <<>>
       /\ logs = <<>> => resp'.status = 404
       /\ (resp'.status # 404 /\ resp'.op = "get_logs_by_level") =>
              \A l \in LevelParams :
                 (~\E r \in RowSet(logs) : r.level = l)
                     => ~get_logs_by_level(resp'.header, l)
       /\ (resp'.status # 404 /\ resp'.op = "get_logs_by_process_name") =>
              \A pn \in ProcessParams :
                 (~\E r \in RowSet(logs) : r.process_name = pn)
                     => ~get_logs_by_process_name(resp'.header, pn)
       /\ (resp'.status # 404 /\ resp'.op = "get_logs_by_process_and_level") =>
              \A pn \in ProcessParams, l \in LevelParams :
                 (~\E r \in RowSet(logs) : r.process_name = pn /\ r.level = l)
                     => ~get_logs_by_process_and_level(resp'.header, pn, l)
       /\ (resp'.status # 404 /\ resp'.op = "get_logs_by_msg_keyword") =>
              \A kw \in Keywords :
                 (~\E r \in RowSet(logs) : contains(r.message, kw))
                     => ~get_logs_by_msg_keyword(resp'.header, kw)
       /\ (resp'.status # 404 /\ resp'.op = "get_logs_by_process_and_msg_keyword") =>
              \A pn \in ProcessParams, kw \in Keywords :
                 (~\E r \in RowSet(logs) : r.process_name = pn /\ contains(r.message, kw))
                     => ~get_logs_by_process_and_msg_keyword(resp'.header, pn, kw)
       /\ (resp'.status # 404 /\ resp'.op = "get_recent_logs") =>
              \A n \in Limits :
                 (n = 0 \/ logs = <<>>) => ~get_recent_logs(resp'.header, n)
       /\ (resp'.status # 404 /\ resp'.op = "get_logs_by_date") =>
              \A a \in DateStrings :
                 (~\E r \in RowSet(logs) : TimestampGE(r.timestamp, a))
                     => ~get_logs_by_date(resp'.header, a)
       /\ (resp'.status # 404 /\ resp'.op = "get_logs_by_date_range") =>
              \A a \in DateStrings, b \in DateStrings :
                 (~\E r \in RowSet(logs) : TimestampGE(r.timestamp, a) /\ TimestampLE(r.timestamp, b))
                     => ~get_logs_by_date_range(resp'.header, a, b)]_vars

\* C14 witness: byProcess with an active key was answered 404 on the empty store.
C14_Witness ==
    /\ resp.op = "get_logs_by_process_name" /\ resp.status = 404
    /\ resp.header \in ActiveOperationalTokens
    /\ logs = <<>>

\* every stored log row is still stored, at its place and with the same fields
LogRowsKept == Len(logs') >= Len(logs) /\ SubSeq(logs', 1, Len(logs)) = logs

\* C15: the log store is append-only: every step keeps every stored row as it
\* is, only append (POST /logs/) changes the store, and an authorized append
\* adds exactly one row, whose identifier no stored row has.
C15_AppendOnly ==
    [][/\ LogRowsKept
       /\ logs' # logs => resp'.op = "post_log"
       /\ (RequestStep /\ resp'.op = "post_log" /\ resp'.header \in ActiveOperationalTokens) =>
             /\ Len(logs') = Len(logs) + 1
             /\ logs'[Len(logs')].id # NULL
             /\ \A i \in 1..Len(logs) : logs[i].id # logs'[Len(logs')].id]_vars

\* the holders that are stored and inactive
InactiveHolders == {e \in DOMAIN key_holders : ~key_holders[e].active}

\* C16: holder deactivation is one-way: a holder record that is inactive is
\* still stored and inactive after every step (approve, deactivate, issue, key
\* deactivation), and no step adds a key owned by it.
C16_HolderDeactivationOneWay ==
    [][\A e \in InactiveHolders :
          /\ e \in DOMAIN key_holders' /\ ~key_holders'[e].active
          /\ \A k \in DOMAIN user_api_keys' \ DOMAIN user_api_keys :
                user_api_keys'[k].key_owner_email # e
          /\ \A k \in DOMAIN process_api_keys' \ DOMAIN process_api_keys :
                process_api_keys'[k].key_owner_email # e]_vars

\* C16 witness: with an active admin key, a request to approve, to deactivate
\* or to issue a key has just been made for a holder that was deactivated
\* before, and the holder is inactive.
C16_Witness ==
    /\ resp.op \in {"approve_user", "deactivate_user", "create_api_key"}
    /\ resp.header \in ActiveAdminTokens
    /\ resp.status \in {500, 200, 403}
    /\ \E e \in InactiveHolders : key_holders[e].deactivated_at < now

\* C17: an append whose caller supplies no timestamp is given the time at
\* which the request is handled: the row post_log builds carries the current
\* time, so of two such appends at different times the later has the later
\* timestamp.
C17_TimestampIsIngestionTime ==
    [][(RequestStep /\ resp'.op = "post_log" /\ resp'.header \in ActiveOperationalTokens) =>
       \A l \in LevelInputs, m \in Messages, pn \in ProcessNames :
          post_log(resp'.header, l, m, pn) => NewLogEntry(l, m, pn).timestamp = now]_vars

\* C18: authorization comes before any effect: a request that is denied (a
\* management request without an active admin key, a log request without an
\* active operational key) is answered 401 and leaves the holders, the keys
\* and the logs exactly as they were.
C18_DeniedRequestChangesNothing ==
    [][RequestStep =>
          /\ (resp'.op \in AdminOps /\ resp'.header \notin ActiveAdminTokens)
                => (resp'.status = 401 /\ UNCHANGED tables)
          /\ (resp'.op \in LogOps /\ resp'.header \notin ActiveOperationalTokens)
                => (resp'.status = 401 /\ UNCHANGED tables)
          /\ resp'.status = 401 => UNCHANGED tables]_vars

\* C18 witness: a request to approve a new holder was denied while holders
\* and keys are stored, and the new holder is not stored.
C18_Witness ==
    /\ resp.op = "approve_user" /\ resp.status = 401
    /\ \E e \in Emails : e \notin DOMAIN key_holders
    /\ key_holders # <<>> /\ user_api_keys # <<>>

\* a step leaves every row of a key table whose token is not k as it was, and
\* adds and removes none
OtherKeysKept(tbl, tbl2, k) ==
    /\ DOMAIN tbl2 = DOMAIN tbl
    /\ \A x \in DOMAIN tbl \ {k} : tbl2[x] = tbl[x]

\* C19: an authorized deactivateByToken(k) is answered 404, with nothing
\* changed, exactly when no user or process key, active or not, has token k;
\* otherwise it succeeds, a key with token k is inactive afterwards, and the
\* holders, the admin keys, the logs and every key with another token are as
\* they were.
C19_DeactivateByToken ==
    [][(RequestStep /\ resp'.op = "deactivate_api_key" /\ resp'.header \in ActiveAdminTokens) =>
       \A k \in Tokens :
          deactivate_api_key(resp'.header, k) =>
              IF k \notin OperationalTokens
              THEN resp'.status = 404 /\ UNCHANGED tables
              ELSE /\ resp'.status = 200
                   /\ UNCHANGED <<key_holders, admin_api_keys, logs>>
                   /\ OtherKeysKept(user_api_keys, user_api_keys', k)
                   /\ OtherKeysKept(process_api_keys, process_api_keys', k)
                   /\ \/ k \in DOMAIN user_api_keys /\ ~user_api_keys'[k].active
                      \/ k \in DOMAIN process_api_keys /\ ~process_api_keys'[k].active]_vars

\* C19 witness: a key was deactivated by its token while its holder stays
\* active and the holder's other key stays active.
C19_Witness ==
    /\ resp.op = "deactivate_api_key" /\ resp.status = 200
    /\ \E r \in APIKeyPoly, r2 \in APIKeyPoly :
          /\ ~r.active /\ r2.active
          /\ r.key_owner_email = r2.key_owner_email
          /\ key_holders[r.key_owner_email].active

\* the tokens of the active user keys and of the active process keys of an owner
ActiveUserKeysOf(e) ==
    {k \in DOMAIN user_api_keys : user_api_keys[k].key_owner_email = e /\ user_api_keys[k].active}
ActiveProcessKeysOf(e) ==
    {k \in DOMAIN process_api_keys :
        process_api_keys[k].key_owner_email = e /\ process_api_keys[k].active}

\* C20: an authorized deactivateAllForOwner(email) is answered 404, with
\* nothing changed, when the owner has no active key; otherwise it succeeds
\* and in the state it commits every key of that owner is inactive, while the
\* holder record and the keys of other owners are as they were.
C20_DeactivateAllForOwner ==
    [][(RequestStep /\ resp'.op = "deactivate_api_key_by_owner"
                    /\ resp'.header \in ActiveAdminTokens) =>
       \A e \in Emails :
          deactivate_api_key_by_owner(resp'.header, e) =>
              IF ActiveUserKeysOf(e) \cup ActiveProcessKeysOf(e) = {}
              THEN resp'.status = 404 /\ UNCHANGED tables
              ELSE /\ resp'.status = 200
                   /\ UNCHANGED <<key_holders, admin_api_keys, logs>>
                   /\ \A k \in DOMAIN user_api_keys' :
                         IF user_api_keys[k].key_owner_email = e
                         THEN ~user_api_keys'[k].active
                         ELSE user_api_keys'[k] = user_api_keys[k]
                   /\ \A k \in DOMAIN process_api_keys' :
                         IF process_api_keys[k].key_owner_email = e
                         THEN ~process_api_keys'[k].active
                         ELSE process_api_keys'[k] = process_api_keys[k]]_vars

\* ======================================================= claims C21..C23
\* C21: key issuance always terminates: an issue request that has reached the
\* constructor eventually returns, with a key or with an error, even when
\* every draw of the generator collides with an existing token.
C21_IssuanceTerminates ==
    \A p \in Procs : (req[p].pc = "approved") ~> (req[p].pc = "done")

\* the flag and the deactivation time of a row agree
FlagMatchesTimestamp(row) == row.active <=> row.deactivated_at = NULL

\* C22: in every state, every user, process and admin key and every holder
\* is active exactly when its deactivated_at is null.
C22_ActiveIffNoDeactivationTime ==
    /\ \A r \in APIKeyPoly : FlagMatchesTimestamp(r)
    /\ \A r \in Rows(admin_api_keys) : FlagMatchesTimestamp(r)
    /\ \A r \in Rows(key_holders) : FlagMatchesTimestamp(r)

\* C22 witness: a deactivated holder with a deactivated key and an active
\* holder are stored together, after time has passed.
C22_Witness ==
    /\ now > 0
    /\ \E r \in Rows(key_holders) : ~r.active /\ r.deactivated_at # NULL
    /\ \E r \in APIKeyPoly : ~r.active /\ r.deactivated_at # NULL
    /\ \E r \in Rows(key_holders) : r.active /\ r.deactivated_at = NULL

\* every user and process key is owned by a holder of the registry
OwnersAreHolders == \A r \in APIKeyPoly : r.key_owner_email \in DOMAIN key_holders

\* the keys of tbl are still in tbl2, each with the owner and the kind it had
OwnerAndKindKept(tbl, tbl2) ==
    \A k \in DOMAIN tbl :
        /\ k \in DOMAIN tbl2
        /\ tbl2[k].key_owner_email = tbl[k].key_owner_email
        /\ tbl2[k].type = tbl[k].type

\* C23: in every reachable state every user and process key is owned by an
\* email that is a holder of the registry, and no step removes a holder,
\* removes a key, or changes the owner or the kind of a key.
C23_OwnershipIntegrity ==
    /\ []OwnersAreHolders
    /\ [][/\ DOMAIN key_holders \subseteq DOMAIN key_holders'
          /\ OwnerAndKindKept(user_api_keys, user_api_keys')
          /\ OwnerAndKindKept(process_api_keys, process_api_keys')]_vars

\* C23 witness: a process key was issued to a holder, the holder was
\* deactivated afterwards and is still in the registry as the key's owner,
\* while another email is not in the registry.
C23_Witness ==
    /\ resp.op = "deactivate_user" /\ resp.status = 200
    /\ \E r \in Rows(process_api_keys) :
          /\ r.type = "PROCESS"
          /\ r.key_owner_email \in DOMAIN key_holders
          /\ ~key_holders[r.key_owner_email].active
    /\ \E e \in Emails : e \notin DOMAIN key_holders

====
